---- MODULE Spec2Model ----
(***************************************************************************)
(* Verification model of the dev-workspace-setup repository:               *)
(*   - tests/templates.py : the key-value store capability and its         *)
(*     variants (CloudRepository, FakeRepo, StubRepo, MockRepo) and the     *)
(*     max-with-validation function (function_under_test);                 *)
(*   - tasks.py           : the update_vscode task.                        *)
(* A Python str is modelled as a sequence of one-character strings, a      *)
(* dict as a function whose DOMAIN is the set of its keys.                 *)
(***************************************************************************)
EXTENDS Integers, Sequences, FiniteSets, TLC

VARIABLES
    cloud_data_store,   \* CloudRepository._data_store
    slept,              \* seconds spent in CloudRepository._cloud_operation
    cloud_log,          \* calls made on the CloudRepository instance, with outcomes
    fake_data,          \* FakeRepo._data
    fake_log,           \* calls made on the FakeRepo instance, with outcomes
    stub_log,           \* calls made on the StubRepo instance, with outcomes
    actual,             \* result of the last read_parse_sum_data(stub_repo, keys)
    create_call_count,  \* MockRepo.create_call_count
    create_call_args,   \* MockRepo.create_call_args
    read_call_count,    \* MockRepo.read_call_count
    read_call_args,     \* MockRepo.read_call_args
    mock_log,           \* calls made on the MockRepo instance, with outcomes
    load_call,          \* the last load_many_values_sum_and_create_new_entry(mock_repo, keys)
    fut_pc,             \* function_under_test: "idle", "validated", "returned", "raised"
    sequence_of_numbers,        \* function_under_test: its argument
    non_numbers_in_sequence,    \* function_under_test: the set built by the comprehension
    fut_out,            \* function_under_test: the value returned or the exception raised
    max_calls,          \* function_under_test: evaluations of max(sequence_of_numbers)
    task_pc,            \* update_vscode: "idle", "running", "done", "raised"
    secrets_file,       \* what secrets.yaml held when this run read it
    password,           \* update_vscode: the password read from the secrets
    invoked,            \* update_vscode: the commands this run has invoked, with outcomes
    command_cwds,       \* update_vscode: the directories entered with context.cd
    task_exc,           \* update_vscode: the exception that reached the caller
    repo_dir_exists,    \* the directory visual-studio-code-insiders-bin exists
    runs,               \* invocations of the task so far
    session_pc,         \* test session: "created", "started", "collected", "finished"
    exitstatus,         \* session.exitstatus
    testscollected,     \* session.testscollected
    test_results,       \* outcomes of the tests run so far
    hook_calls,         \* calls of the conftest hook pytest_sessionstart
    comp_pc,            \* CompositeClassUnderTest: "none" or "constructed"
    behavior_object,    \* the Transformer handed to the constructor
    composite_behavior, \* CompositeClassUnderTest._behavior_object
    transform_calls,    \* calls of transform received by Transformer objects
    run_log,            \* calls of CompositeClassUnderTest.run, with their results
    fix_pc,             \* cleanup fixture: "none", "yielded", "test_ended", "torn_down"
    created_folders,    \* the collector created_folders of the fixture
    fs_folders,         \* the folders that exist under tmp_path
    fs_files,           \* the files that exist under tmp_path, as <<folder, name>>
    made_folders,       \* the folders the factory has created during the test
    test_outcome,       \* "running", "passed" or "failed"
    teardown_exc,       \* the exception raised by the code after the yield
    factory_calls       \* calls of the factory made by the test

repoVars == <<cloud_data_store, slept, cloud_log, fake_data, fake_log>>
doubleVars == <<stub_log, actual, create_call_count, create_call_args,
                read_call_count, read_call_args, mock_log, load_call>>
futVars == <<fut_pc, sequence_of_numbers, non_numbers_in_sequence, fut_out, max_calls>>
taskVars == <<task_pc, secrets_file, password, invoked, command_cwds, task_exc, repo_dir_exists, runs>>
sessionVars == <<session_pc, exitstatus, testscollected, test_results, hook_calls>>
compVars == <<comp_pc, behavior_object, composite_behavior, transform_calls, run_log>>
fixtureVars == <<fix_pc, created_folders, fs_folders, fs_files, made_folders,
                 test_outcome, teardown_exc, factory_calls>>
otherVars == <<sessionVars, compVars, fixtureVars>>
vars == <<repoVars, doubleVars, futVars, taskVars, otherVars>>

(***************************************************************************)
(* Bounds of the exploration.                                              *)
(***************************************************************************)
MaxRepoCalls == 5
MaxDoubleCalls == 4
MaxKeysLen == 3
MaxSeqLen == 3
MaxRuns == 4
MaxTests == 4
MaxRows == 2
MaxRunCalls == 2
MaxFactoryCalls == 3

Keys == { <<"1">>, <<"2">> }
Values == { <<"2">>, <<"1", "7">> }

(***************************************************************************)
(* Python values and outcomes of a call.                                   *)
(***************************************************************************)
Returned(v) == [kind |-> "return", value |-> v, exc |-> ""]
ReturnedNone == [kind |-> "none", value |-> <<>>, exc |-> ""]
Raised(e) == [kind |-> "raise", value |-> <<>>, exc |-> e]

EmptyDict == [k \in {} |-> <<>>]
\* d[key] = value on a dict
DictSet(d, key, value) ==
    [k \in DOMAIN d \cup {key} |-> IF k = key THEN value ELSE d[k]]

CreateCall(key, value, out) == [op |-> "create", key |-> key, value |-> value, out |-> out]
ReadCall(key, out) == [op |-> "read", key |-> key, value |-> <<>>, out |-> out]

\* int(s) for a str s: the decimal value of a non-empty string of digits
Digits == <<"0", "1", "2", "3", "4", "5", "6", "7", "8", "9">>
IsDigit(c) == \E i \in 1..10 : Digits[i] = c
DigitValue(c) == (CHOOSE i \in 1..10 : Digits[i] = c) - 1
RECURSIVE IntOfDigits(_)
IntOfDigits(s) ==
    IF s = <<>> THEN 0
    ELSE 10 * IntOfDigits(SubSeq(s, 1, Len(s) - 1)) + DigitValue(s[Len(s)])
IsIntLiteral(s) == s # <<>> /\ \A i \in 1..Len(s) : IsDigit(s[i])

(***************************************************************************)
(* CloudRepository (templates.py 453-473).                                 *)
(***************************************************************************)
CloudOperationSleep == 10
CloudRepository_cloud_operation(t) == t + CloudOperationSleep

\* mutant: a create that keeps the value of a key already present
CloudRepository_create_keep_existing(store, key, value) ==
    [self |-> IF key \in DOMAIN store THEN store ELSE DictSet(store, key, value),
     out |-> ReturnedNone]

\* mutant: a create that appends to the value of a key already present
CloudRepository_create_accumulate(store, key, value) ==
    [self |-> DictSet(store, key, IF key \in DOMAIN store THEN store[key] \o value ELSE value),
     out |-> ReturnedNone]

CloudRepository_create(store, key, value) ==
    [self |-> DictSet(store, key, value), out |-> ReturnedNone]

CloudRepository_read(store, key) ==
    [self |-> store,
     out |-> IF key \in DOMAIN store THEN Returned(store[key]) ELSE Raised("KeyError")]

(***************************************************************************)
(* FakeRepo (templates.py 545-566).                                        *)
(***************************************************************************)
\* mutant: a create that replaces the whole mapping by the new entry
FakeRepo_create_replace_all(data, key, value) ==
    [self |-> DictSet(EmptyDict, key, value), out |-> ReturnedNone]

\* mutant: a create that keeps the value of a key already present
FakeRepo_create_keep_existing(data, key, value) ==
    [self |-> IF key \in DOMAIN data THEN data ELSE DictSet(data, key, value),
     out |-> ReturnedNone]

FakeRepo_create(data, key, value) ==
    [self |-> DictSet(data, key, value), out |-> ReturnedNone]

\* mutant: a read that takes the entry out of the mapping, as dict.pop does
FakeRepo_read_pop(data, key) ==
    [self |-> [k \in DOMAIN data \ {key} |-> data[k]],
     out |-> IF key \in DOMAIN data THEN Returned(data[key]) ELSE Raised("KeyError")]

\* mutant: a read that answers the empty string for an absent key
FakeRepo_read_default(data, key) ==
    [self |-> data,
     out |-> IF key \in DOMAIN data THEN Returned(data[key]) ELSE Returned(<<>>)]

FakeRepo_read(data, key) ==
    [self |-> data,
     out |-> IF key \in DOMAIN data THEN Returned(data[key]) ELSE Raised("KeyError")]

(***************************************************************************)
(* StubRepo (templates.py 598-607) and read_parse_sum_data (617-620).      *)
(***************************************************************************)
StubRepo_create(key, value) == ReturnedNone
\* mutant: a read that answers with the key it was given
StubRepo_read_echo_key(key) == Returned(key)

StubRepo_read(key) == Returned(<<"2">>)

RECURSIVE SumInts(_)
SumInts(values) ==
    IF values = <<>> THEN 0
    ELSE IntOfDigits(values[Len(values)]) + SumInts(SubSeq(values, 1, Len(values) - 1))

\* read_parse_sum_data(repo, keys), given the outcomes of repo.read(key) for
\* each key in order: int() of a value that is no number raises ValueError
read_parse_sum_data(keys, reads) ==
    LET values == [i \in 1..Len(keys) |-> reads[i].value] IN
    IF \E i \in 1..Len(keys) : ~IsIntLiteral(values[i])
    THEN [called |-> TRUE, keys |-> keys, raised |-> "ValueError", ret |-> 0]
    ELSE [called |-> TRUE, keys |-> keys, raised |-> "", ret |-> SumInts(values)]

(***************************************************************************)
(* MockRepo (templates.py 634-655): self is the record of its four fields. *)
(***************************************************************************)
\* mutant: a create that records its arguments in front of the earlier ones
MockRepo_create_prepend(self, key, value) ==
    [self |-> [self EXCEPT !.create_call_count = @ + 1,
                           !.create_call_args = << <<key, value>> >> \o @],
     out |-> ReturnedNone]

MockRepo_create(self, key, value) ==
    [self |-> [self EXCEPT !.create_call_count = @ + 1,
                           !.create_call_args = Append(@, <<key, value>>)],
     out |-> ReturnedNone]

MockRepo_read(self, key) ==
    [self |-> [self EXCEPT !.read_call_count = @ + 1,
                           !.read_call_args = Append(@, key)],
     out |-> Returned(<<"2">>)]

\* str(n) for an int n >= 0
RECURSIVE StrOfInt(_)
StrOfInt(n) ==
    IF n < 10 THEN <<Digits[n + 1]>>
    ELSE StrOfInt(n \div 10) \o <<Digits[(n % 10) + 1]>>

TotalKey == <<"t", "o", "t", "a", "l">>

\* the reads of lines 668-670: repo.read(key) and int(value) for each key in
\* order, up to the first value that is no number
RECURSIVE ReadAndParseAll(_, _)
ReadAndParseAll(self, keys) ==
    IF keys = <<>> THEN [self |-> self, calls |-> <<>>, total |-> 0, raised |-> ""]
    ELSE LET r == MockRepo_read(self, Head(keys))
             call == ReadCall(Head(keys), r.out)
         IN IF ~IsIntLiteral(r.out.value)
            THEN [self |-> r.self, calls |-> <<call>>, total |-> 0, raised |-> "ValueError"]
            ELSE LET rest == ReadAndParseAll(r.self, Tail(keys))
                 IN [self |-> rest.self, calls |-> <<call>> \o rest.calls,
                     total |-> IntOfDigits(r.out.value) + rest.total,
                     raised |-> rest.raised]

Reverse(seq) == [i \in 1..Len(seq) |-> seq[Len(seq) + 1 - i]]

\* mutant: the keys are read from the last to the first
load_many_values_sum_and_create_new_entry_reversed(self, keys) ==
    LET reads == ReadAndParseAll(self, Reverse(keys))
        made == MockRepo_create(reads.self, TotalKey, StrOfInt(reads.total))
    IN IF reads.raised # ""
       THEN [self |-> reads.self, calls |-> reads.calls, raised |-> reads.raised]
       ELSE [self |-> made.self,
             calls |-> Append(reads.calls, CreateCall(TotalKey, StrOfInt(reads.total), made.out)),
             raised |-> ""]

\* load_many_values_sum_and_create_new_entry(repo, keys), lines 665-671, on
\* the mock: its state afterwards and the calls it made, in order
load_many_values_sum_and_create_new_entry(self, keys) ==
    LET reads == ReadAndParseAll(self, keys)
        made == MockRepo_create(reads.self, TotalKey, StrOfInt(reads.total))
    IN IF reads.raised # ""
       THEN [self |-> reads.self, calls |-> reads.calls, raised |-> reads.raised]
       ELSE [self |-> made.self,
             calls |-> Append(reads.calls, CreateCall(TotalKey, StrOfInt(reads.total), made.out)),
             raised |-> ""]

MockSelf == [create_call_count |-> create_call_count,
             create_call_args |-> create_call_args,
             read_call_count |-> read_call_count,
             read_call_args |-> read_call_args]

(***************************************************************************)
(* function_under_test (templates.py 56-65).  An element of its argument   *)
(* is a Python object: its type t, its number n when it is one, and its    *)
(* repr s otherwise.                                                       *)
(***************************************************************************)
IntObj(i) == [t |-> "int", n |-> i, s |-> ""]
Other(type, repr) == [t |-> type, n |-> 0, s |-> repr]
IntObjects == {IntObj(0 - 2), IntObj(0), IntObj(3)}
BoolObjects == {[t |-> "bool", n |-> 1, s |-> "True"]}
NonIntObjects == {Other("str", "'x'"), Other("str", "'non_number'"),
                  Other("float", "1.5"), Other("NoneType", "None"),
                  Other("list", "[2]")}
Objects == IntObjects \cup BoolObjects \cup NonIntObjects
NoObject == Other("", "")

\* isinstance(maybe_number, int): bool is a subclass of int
IsInstanceInt(obj) == obj.t \in {"int", "bool"}
\* hash(obj) is defined: list, dict and set objects are unhashable
IsHashable(obj) == obj.t \notin {"list", "dict", "set"}
\* repr(obj)
Repr(obj) == IF obj.t = "int" THEN ToString(obj.n) ELSE obj.s

NoOutcome == [kind |-> "none", value |-> NoObject, exc |-> "", msg |-> <<>>]
FutReturned(obj) == [kind |-> "return", value |-> obj, exc |-> "", msg |-> <<>>]
FutRaised(e, msg) == [kind |-> "raise", value |-> NoObject, exc |-> e, msg |-> msg]

\* the orders in which a set may be iterated
Orderings(S) ==
    {f \in [1..Cardinality(S) -> S] : \A i, j \in 1..Cardinality(S) : f[i] = f[j] => i = j}

\* f"{a_set}": the reprs of its elements in iteration order, between braces
RECURSIVE JoinReprs(_)
JoinReprs(order) ==
    IF order = <<>> THEN <<>>
    ELSE IF Len(order) = 1 THEN <<Repr(order[1])>>
    ELSE <<Repr(order[1]), ", ">> \o JoinReprs(Tail(order))
FormatSet(order) == <<"{">> \o JoinReprs(order) \o <<"}">>

NonNumberPrefix == "Expected numbers in sequence, but found non-number: "

\* the set comprehension of lines 58-62: the objects of the sequence that are
\* no int; adding an unhashable object to the set raises TypeError
NonNumbers(seq) == {seq[i] : i \in {j \in 1..Len(seq) : ~IsInstanceInt(seq[j])}}
FirstUnhashable(seq) ==
    LET bad == {j \in 1..Len(seq) : ~IsInstanceInt(seq[j]) /\ ~IsHashable(seq[j])}
    IN seq[CHOOSE j \in bad : \A k \in bad : j <= k]

\* mutant: the comparison of max reversed
Max_reversed(seq) ==
    LET best == {i \in 1..Len(seq) : \A j \in 1..Len(seq) : seq[j].n >= seq[i].n}
    IN seq[CHOOSE i \in best : \A k \in best : i <= k]

\* max(seq) of a non-empty sequence of ints: the first of its greatest elements
Max(seq) ==
    LET best == {i \in 1..Len(seq) : \A j \in 1..Len(seq) : seq[j].n <= seq[i].n}
    IN seq[CHOOSE i \in best : \A k \in best : i <= k]

\* mutant: max with a default for the empty sequence, max(seq, default=0)
BuiltinMax_with_default(seq) ==
    IF seq = <<>> THEN FutReturned(IntObj(0)) ELSE FutReturned(Max(seq))

\* max(sequence_of_numbers): ValueError on the empty sequence
BuiltinMax(seq) ==
    IF seq = <<>> THEN FutRaised("ValueError", <<"max() arg is an empty sequence">>)
    ELSE FutReturned(Max(seq))

(***************************************************************************)
(* update_vscode (tasks.py 11-27).                                         *)
(***************************************************************************)
CmdCloneRepo == "git clone https://aur.archlinux.org/visual-studio-code-insiders-bin.git"
CmdBuild == "echo 'Y' | makepkg -si"
CmdInstall == "pacman -U"
CmdRemove == "rm -rf ./visual-studio-code-insiders-bin"
RepoPath == "visual-studio-code-insiders-bin"
NoPassword == ""
Passwords == {"hunter2", "s3cret"}

\* secrets.yaml has not been read yet
NotRead == [state |-> "not_read", password |-> NoPassword]

\* what secrets.yaml may hold when _read_secrets reads it
SecretsFiles ==
    {[state |-> "missing", password |-> NoPassword],
     [state |-> "malformed", password |-> NoPassword],
     [state |-> "not_a_mapping", password |-> NoPassword],
     [state |-> "no_password", password |-> NoPassword]}
    \cup {[state |-> "ok", password |-> pw] : pw \in Passwords}

\* mutant: a lookup with a default, _read_secrets().get('password', '')
ReadPassword_with_default(file) ==
    CASE file.state = "missing" -> [exc |-> "FileNotFoundError", password |-> NoPassword]
      [] file.state = "malformed" -> [exc |-> "YAMLError", password |-> NoPassword]
      [] file.state = "not_a_mapping" -> [exc |-> "TypeError", password |-> NoPassword]
      [] file.state = "no_password" -> [exc |-> "", password |-> NoPassword]
      [] OTHER -> [exc |-> "", password |-> file.password]

\* _read_secrets()['password']: the password, or the exception raised
ReadPassword(file) ==
    CASE file.state = "missing" -> [exc |-> "FileNotFoundError", password |-> NoPassword]
      [] file.state = "malformed" -> [exc |-> "YAMLError", password |-> NoPassword]
      [] file.state = "not_a_mapping" -> [exc |-> "TypeError", password |-> NoPassword]
      [] file.state = "no_password" -> [exc |-> "KeyError", password |-> NoPassword]
      [] OTHER -> [exc |-> "", password |-> file.password]

\* mutant: the removal moved before the install
StepOrder_remove_before_install == <<"clone", "build", "remove", "install">>

\* the statements of lines 18-23, in program order
StepOrder == <<"clone", "build", "install", "remove">>

\* how a command ends: exit status 0, another exit status, or (for sudo) the
\* password rejected
RunOutcomes == {"ok", "nonzero_exit"}
SudoOutcomes == {"ok", "nonzero_exit", "auth_failure"}

\* mutant: a failed command only warns, as with warn=True
RaisedBy_warn_only(outcome) == ""

\* context.run / context.sudo raise on a command that did not succeed
RaisedBy(outcome) ==
    CASE outcome = "ok" -> ""
      [] outcome = "auth_failure" -> "AuthFailure"
      [] OTHER -> "UnexpectedExit"

\* the record of one context.run(command) or context.sudo(command, password)
Invocation(step, via, command, cwds, pw, outcome) ==
    [step |-> step, via |-> via, command |-> command, cwds |-> cwds,
     password |-> pw, outcome |-> outcome]

(***************************************************************************)
(* The test-session hook (conftest.py 1-4) and the exit statuses it tests. *)
(***************************************************************************)
ExitOK == 0
ExitNoTestsCollected == 5

\* pytest_sessionstart(session): the exit status it leaves in the session
pytest_sessionstart(status) ==
    IF status = ExitNoTestsCollected THEN ExitOK ELSE status

\* the status the test runner computes once the tests have run: 1 when a
\* test failed, 5 when none was collected, 0 otherwise
MainStatus(collected, results) ==
    IF \E i \in 1..Len(results) : results[i] = "failed" THEN 1
    ELSE IF collected = 0 THEN ExitNoTestsCollected
    ELSE ExitOK

(***************************************************************************)
(* Transformer objects and CompositeClassUnderTest (templates.py 320-386). *)
(* A DataFrame is the sequence of its rows.                                *)
(***************************************************************************)
Row(letter, number) == [letter_column |-> letter, number_column |-> number]
Rows == {Row("A", 1), Row("B", 2), Row("C", 3)}
DataFrames == UNION {[1..n -> Rows] : n \in 0..MaxRows}
\* what a MagicMock(spec=FakeTransformer).transform returns: another mock
MockFrame == <<Row("MagicMock", 0)>>
Transformers == {"FakeTransformer", "MagicMock"}

KeepRow(row) == row.number_column <= 2
\* FakeTransformer.transform: input_data.filter(input_data.number_column <= 2)
FakeTransformer_transform(input_data) == SelectSeq(input_data, KeepRow)

\* obj.transform(input_data) on either Transformer
Transformer_transform(obj, input_data) ==
    IF obj = "FakeTransformer" THEN FakeTransformer_transform(input_data) ELSE MockFrame

TransformCall(obj, input_data) ==
    [on |-> obj, arg |-> input_data, ret |-> Transformer_transform(obj, input_data)]

\* CompositeClassUnderTest.__init__: the value of self._behavior_object
CompositeClassUnderTest_init(obj) == obj

\* CompositeClassUnderTest._transform: the calls it makes and its result
CompositeClassUnderTest_transform(self, input_data) ==
    [calls |-> <<TransformCall(self, input_data)>>,
     ret |-> Transformer_transform(self, input_data)]

\* mutant: run transforms the result once more
CompositeClassUnderTest_run_twice(self, input_data) ==
    LET first == CompositeClassUnderTest_transform(self, input_data)
        second == CompositeClassUnderTest_transform(self, first.ret)
    IN [calls |-> first.calls \o second.calls, ret |-> second.ret]

\* CompositeClassUnderTest.run
CompositeClassUnderTest_run(self, input_data) ==
    CompositeClassUnderTest_transform(self, input_data)

(***************************************************************************)
(* create_temp_infrastructure_and_handle_cleanup (templates.py 809-835).   *)
(* Paths are relative to the tmp_path of the test.                         *)
(***************************************************************************)
SubFolder == "sub_folder"
\* file names a test may pass; the last one names a directory that is not there
FileNameLists == {<<>>, <<"file_1.txt">>, <<"file_2.txt">>,
                  <<"file_1.txt", "file_2.txt">>,
                  <<"file_1.txt", "missing_dir/file_3.txt">>,
                  <<"missing_dir/file_3.txt", "file_2.txt">>}
CanTouch(name) == name \in {"file_1.txt", "file_2.txt"}

\* [file.touch() for file in filepaths]: the files touched before the first
\* failure, and the exception of that failure
RECURSIVE TouchAll(_, _, _)
TouchAll(folder, file_names, files) ==
    IF file_names = <<>> THEN [files |-> files, exc |-> ""]
    ELSE IF ~CanTouch(Head(file_names)) THEN [files |-> files, exc |-> "FileNotFoundError"]
    ELSE TouchAll(folder, Tail(file_names), files \cup {<<folder, Head(file_names)>>})

\* mutant: a factory that does not record the folder it creates
wrapped_func_no_record(created, folders, files, file_names) ==
    IF SubFolder \in folders
    THEN [created |-> created, folders |-> folders, files |-> files,
          made |-> {}, exc |-> "FileExistsError"]
    ELSE LET touched == TouchAll(SubFolder, file_names, files)
         IN [created |-> created, folders |-> folders \cup {SubFolder},
             files |-> touched.files, made |-> {SubFolder}, exc |-> touched.exc]

\* wrapped_func(file_names), lines 819-831: mkdir (which fails when the
\* folder exists), record the folder, touch the files
wrapped_func(created, folders, files, file_names) ==
    IF SubFolder \in folders
    THEN [created |-> created, folders |-> folders, files |-> files,
          made |-> {}, exc |-> "FileExistsError"]
    ELSE LET touched == TouchAll(SubFolder, file_names, files)
         IN [created |-> Append(created, SubFolder), folders |-> folders \cup {SubFolder},
             files |-> touched.files, made |-> {SubFolder}, exc |-> touched.exc]

\* shutil.rmtree(folder) on the file system
Rmtree(folder, folders, files) ==
    IF folder \in folders
    THEN [folders |-> folders \ {folder},
          files |-> {f \in files : f[1] # folder}, exc |-> ""]
    ELSE [folders |-> folders, files |-> files, exc |-> "FileNotFoundError"]

\* line 835: [shutil.rmtree(folder) for folder in created_folders], which
\* stops at the first rmtree that raises
RECURSIVE Cleanup(_, _, _)
Cleanup(created, folders, files) ==
    IF created = <<>> THEN [folders |-> folders, files |-> files, exc |-> ""]
    ELSE LET r == Rmtree(Head(created), folders, files)
         IN IF r.exc # "" THEN r ELSE Cleanup(Tail(created), r.folders, r.files)

(***************************************************************************)
(* Initial state: every store freshly constructed.                         *)
(***************************************************************************)
Init ==
    /\ cloud_data_store = EmptyDict
    /\ slept = 0
    /\ cloud_log = <<>>
    /\ fake_data = EmptyDict
    /\ fake_log = <<>>
    /\ stub_log = <<>>
    /\ actual = [called |-> FALSE, keys |-> <<>>, raised |-> "", ret |-> 0]
    /\ create_call_count = 0
    /\ create_call_args = <<>>
    /\ read_call_count = 0
    /\ read_call_args = <<>>
    /\ mock_log = <<>>
    /\ load_call = [called |-> FALSE, keys |-> <<>>, at |-> 0, raised |-> ""]
    /\ fut_pc = "idle"
    /\ sequence_of_numbers = <<>>
    /\ non_numbers_in_sequence = {}
    /\ fut_out = NoOutcome
    /\ max_calls = 0
    /\ task_pc = "idle"
    /\ secrets_file = NotRead
    /\ password = NoPassword
    /\ invoked = <<>>
    /\ command_cwds = <<>>
    /\ task_exc = ""
    /\ repo_dir_exists = FALSE
    /\ runs = 0
    /\ session_pc = "created"
    /\ exitstatus = ExitOK
    /\ testscollected = 0
    /\ test_results = <<>>
    /\ hook_calls = 0
    /\ comp_pc = "none"
    /\ behavior_object = "none"
    /\ composite_behavior = "none"
    /\ transform_calls = <<>>
    /\ run_log = <<>>
    /\ fix_pc = "none"
    /\ created_folders = <<>>
    /\ fs_folders = {}
    /\ fs_files = {}
    /\ made_folders = {}
    /\ test_outcome = "running"
    /\ teardown_exc = ""
    /\ factory_calls = 0

(***************************************************************************)
(* Calls on the production-like store and on the fake store.               *)
(***************************************************************************)
RepoCallsLeft == Len(cloud_log) + Len(fake_log) < MaxRepoCalls

CloudCreate(key, value) ==
    LET r == CloudRepository_create(cloud_data_store, key, value) IN
    /\ RepoCallsLeft
    /\ slept' = CloudRepository_cloud_operation(slept)
    /\ cloud_data_store' = r.self
    /\ cloud_log' = Append(cloud_log, CreateCall(key, value, r.out))
    /\ UNCHANGED <<otherVars, fake_data, fake_log, doubleVars, futVars, taskVars>>

CloudRead(key) ==
    LET r == CloudRepository_read(cloud_data_store, key) IN
    /\ RepoCallsLeft
    /\ slept' = CloudRepository_cloud_operation(slept)
    /\ cloud_data_store' = r.self
    /\ cloud_log' = Append(cloud_log, ReadCall(key, r.out))
    /\ UNCHANGED <<otherVars, fake_data, fake_log, doubleVars, futVars, taskVars>>

FakeCreate(key, value) ==
    LET r == FakeRepo_create(fake_data, key, value) IN
    /\ RepoCallsLeft
    /\ fake_data' = r.self
    /\ fake_log' = Append(fake_log, CreateCall(key, value, r.out))
    /\ UNCHANGED <<otherVars, cloud_data_store, slept, cloud_log, doubleVars, futVars, taskVars>>

FakeRead(key) ==
    LET r == FakeRepo_read(fake_data, key) IN
    /\ RepoCallsLeft
    /\ fake_data' = r.self
    /\ fake_log' = Append(fake_log, ReadCall(key, r.out))
    /\ UNCHANGED <<otherVars, cloud_data_store, slept, cloud_log, doubleVars, futVars, taskVars>>

RepoNext ==
    \/ \E key \in Keys, value \in Values : CloudCreate(key, value)
    \/ \E key \in Keys : CloudRead(key)
    \/ \E key \in Keys, value \in Values : FakeCreate(key, value)
    \/ \E key \in Keys : FakeRead(key)

SpecRepo == Init /\ [][RepoNext]_vars

(***************************************************************************)
(* Calls on the stub store and on the mock store.                          *)
(***************************************************************************)
KeySeqs == UNION {[1..n -> Keys] : n \in 0..MaxKeysLen}
DoubleCallsLeft(n) == Len(stub_log) + Len(mock_log) + n <= MaxDoubleCalls

StubCreate(key, value) ==
    /\ DoubleCallsLeft(1)
    /\ stub_log' = Append(stub_log, CreateCall(key, value, StubRepo_create(key, value)))
    /\ UNCHANGED <<otherVars, repoVars, futVars, taskVars, load_call, actual, create_call_count, create_call_args,
                   read_call_count, read_call_args, mock_log>>

StubRead(key) ==
    /\ DoubleCallsLeft(1)
    /\ stub_log' = Append(stub_log, ReadCall(key, StubRepo_read(key)))
    /\ UNCHANGED <<otherVars, repoVars, futVars, taskVars, load_call, actual, create_call_count, create_call_args,
                   read_call_count, read_call_args, mock_log>>

\* actual = read_parse_sum_data(stub_repo, keys): one read per key, in order
StubReadParseSumData(keys) ==
    LET reads == [i \in 1..Len(keys) |-> StubRepo_read(keys[i])] IN
    /\ DoubleCallsLeft(Len(keys))
    /\ stub_log' = stub_log \o [i \in 1..Len(keys) |-> ReadCall(keys[i], reads[i])]
    /\ actual' = read_parse_sum_data(keys, reads)
    /\ UNCHANGED <<otherVars, repoVars, futVars, taskVars, load_call, create_call_count, create_call_args,
                   read_call_count, read_call_args, mock_log>>

\* load_many_values_sum_and_create_new_entry(mock_repo, keys)
MockLoadMany(keys) ==
    LET r == load_many_values_sum_and_create_new_entry(MockSelf, keys) IN
    /\ DoubleCallsLeft(Len(keys) + 1)
    /\ create_call_count' = r.self.create_call_count
    /\ create_call_args' = r.self.create_call_args
    /\ read_call_count' = r.self.read_call_count
    /\ read_call_args' = r.self.read_call_args
    /\ mock_log' = mock_log \o r.calls
    /\ load_call' = [called |-> TRUE, keys |-> keys, at |-> Len(mock_log),
                     raised |-> r.raised]
    /\ UNCHANGED <<otherVars, repoVars, futVars, taskVars, stub_log, actual>>

MockApply(r, call) ==
    /\ DoubleCallsLeft(1)
    /\ create_call_count' = r.self.create_call_count
    /\ create_call_args' = r.self.create_call_args
    /\ read_call_count' = r.self.read_call_count
    /\ read_call_args' = r.self.read_call_args
    /\ mock_log' = Append(mock_log, call)
    /\ UNCHANGED <<otherVars, repoVars, futVars, taskVars, load_call, stub_log, actual>>

MockCreate(key, value) ==
    LET r == MockRepo_create(MockSelf, key, value) IN
    MockApply(r, CreateCall(key, value, r.out))

MockRead(key) ==
    LET r == MockRepo_read(MockSelf, key) IN
    MockApply(r, ReadCall(key, r.out))

DoublesNext ==
    \/ \E key \in Keys, value \in Values : StubCreate(key, value)
    \/ \E key \in Keys : StubRead(key)
    \/ \E keys \in KeySeqs : StubReadParseSumData(keys)
    \/ \E key \in Keys, value \in Values : MockCreate(key, value)
    \/ \E key \in Keys : MockRead(key)
    \/ \E keys \in KeySeqs : MockLoadMany(keys)

SpecDoubles == Init /\ [][DoublesNext]_vars

(***************************************************************************)
(* Properties of the production-like store and of the fake store.          *)
(***************************************************************************)
RepoLogs == {cloud_log, fake_log}
IsCreate(c) == c.op = "create"
IsRead(c) == c.op = "read"
CreatedBefore(log, i, key) == \E j \in 1..(i - 1) : IsCreate(log[j]) /\ log[j].key = key

\* C1: on CloudRepository and on FakeRepo, from any reachable state of the
\* store, create(k, v) immediately followed by read(k) returns v.
C1_CreateThenReadReturnsValue ==
    \A log \in RepoLogs : \A i \in 1..(Len(log) - 1) :
        (IsCreate(log[i]) /\ IsRead(log[i + 1]) /\ log[i + 1].key = log[i].key)
            => log[i + 1].out = Returned(log[i].value)

CreateReadAt(log, i) ==
    /\ i + 1 <= Len(log)
    /\ IsCreate(log[i]) /\ IsRead(log[i + 1]) /\ log[i + 1].key = log[i].key

\* both stores have answered a read right after a create of the same key, the
\* cloud one after an earlier create of that key with another value
C1_Witness ==
    /\ \E i \in 1..Len(fake_log) : CreateReadAt(fake_log, i)
    /\ \E i \in 2..Len(cloud_log) :
          /\ CreateReadAt(cloud_log, i)
          /\ IsCreate(cloud_log[i - 1])
          /\ cloud_log[i - 1].key = cloud_log[i].key
          /\ cloud_log[i - 1].value # cloud_log[i].value

\* C2: on CloudRepository and on FakeRepo, read(k) raises KeyError exactly
\* when k was never passed to create on that instance, and otherwise returns
\* a value; it never returns a value for an absent key.
C2_ReadRaisesIffNeverCreated ==
    \A log \in RepoLogs : \A i \in 1..Len(log) :
        IsRead(log[i]) =>
            /\ log[i].out = Raised("KeyError") <=> ~CreatedBefore(log, i, log[i].key)
            /\ log[i].out.kind = "return" <=> CreatedBefore(log, i, log[i].key)

\* the fake store raised KeyError for a key and, after a create of that key,
\* returned its value; the production-like store raised KeyError for a key
\* while holding another one
C2_Witness ==
    /\ \E i, j \in 1..Len(fake_log) :
          /\ i < j
          /\ IsRead(fake_log[i]) /\ fake_log[i].out = Raised("KeyError")
          /\ IsRead(fake_log[j]) /\ fake_log[j].key = fake_log[i].key
          /\ fake_log[j].out.kind = "return"
    /\ \E i \in 2..Len(cloud_log) :
          /\ IsCreate(cloud_log[i - 1])
          /\ IsRead(cloud_log[i]) /\ cloud_log[i].out = Raised("KeyError")

\* the call without its outcome
CallOf(c) == [op |-> c.op, key |-> c.key, value |-> c.value]
SameCalls(n) ==
    /\ n <= Len(fake_log) /\ n <= Len(cloud_log)
    /\ \A i \in 1..n : CallOf(fake_log[i]) = CallOf(cloud_log[i])

\* C3: when the same sequence of create and read calls is applied to a fresh
\* FakeRepo and a fresh CloudRepository, every call has the same outcome in
\* both (the same value, or KeyError in both) and the two backing mappings
\* are equal after every step.
C3_FakeEquivalentToCloud ==
    /\ \A n \in 1..MaxRepoCalls :
          SameCalls(n) => \A i \in 1..n : fake_log[i].out = cloud_log[i].out
    /\ (Len(fake_log) = Len(cloud_log) /\ SameCalls(Len(fake_log)))
          => fake_data = cloud_data_store

\* both stores took the same two calls, an overwriting create among them
C3_Witness ==
    /\ Len(fake_log) = 2 /\ Len(cloud_log) = 2 /\ SameCalls(2)
    /\ IsCreate(fake_log[1]) /\ IsCreate(fake_log[2])
    /\ fake_log[1].key = fake_log[2].key
    /\ fake_log[1].value # fake_log[2].value
    /\ fake_data = cloud_data_store

LastCall(log) == log[Len(log)]
\* this step is a create on the store of `log` that repeats, with the same
\* key and value, the create made by the call just before it
RepeatedCreate(log, logNext) ==
    /\ Len(log) >= 1 /\ Len(logNext) = Len(log) + 1
    /\ IsCreate(LastCall(log)) /\ IsCreate(LastCall(logNext))
    /\ CallOf(LastCall(logNext)) = CallOf(LastCall(log))

\* C6: on FakeRepo and on CloudRepository, a create(k, v) that repeats the
\* create(k, v) just before it leaves the backing mapping as it was, holding
\* v for k, and a read(k) that follows returns v.
C6_CreateIdempotent ==
    /\ [][ /\ RepeatedCreate(fake_log, fake_log')
               => (fake_data' = fake_data /\ fake_data'[LastCall(fake_log').key] = LastCall(fake_log').value)
           /\ RepeatedCreate(cloud_log, cloud_log')
               => (cloud_data_store' = cloud_data_store
                   /\ cloud_data_store'[LastCall(cloud_log').key] = LastCall(cloud_log').value)
         ]_vars
    /\ [](\A log \in RepoLogs : \A i \in 1..(Len(log) - 2) :
            (RepeatedCreate(SubSeq(log, 1, i), SubSeq(log, 1, i + 1))
             /\ IsRead(log[i + 2]) /\ log[i + 2].key = log[i].key)
                => log[i + 2].out = Returned(log[i].value))

RepeatThenReadAt(log, i) ==
    /\ i + 2 <= Len(log)
    /\ RepeatedCreate(SubSeq(log, 1, i), SubSeq(log, 1, i + 1))
    /\ IsRead(log[i + 2]) /\ log[i + 2].key = log[i].key

\* the fake store took create(k, v) twice in a row and then read(k); the
\* production-like store took create(k, v) twice in a row
C6_Witness ==
    /\ \E i \in 1..Len(fake_log) : RepeatThenReadAt(fake_log, i)
    /\ \E i \in 1..(Len(cloud_log) - 1) :
          RepeatedCreate(SubSeq(cloud_log, 1, i), SubSeq(cloud_log, 1, i + 1))

(***************************************************************************)
(* Properties of the mock store and of the stub store.                     *)
(***************************************************************************)
Creates(log) == SelectSeq(log, IsCreate)
Reads(log) == SelectSeq(log, IsRead)

\* C4: on MockRepo, after any interleaved sequence of N create calls and M
\* read calls, create_call_count = N and read_call_count = M,
\* create_call_args is the sequence of (key, value) pairs passed to create in
\* call order, and read_call_args is the sequence of keys passed to read in
\* call order.
C4_MockRecordsCalls ==
    /\ create_call_count = Len(Creates(mock_log))
    /\ read_call_count = Len(Reads(mock_log))
    /\ create_call_args =
          [i \in 1..Len(Creates(mock_log)) |->
              <<Creates(mock_log)[i].key, Creates(mock_log)[i].value>>]
    /\ read_call_args =
          [i \in 1..Len(Reads(mock_log)) |-> Reads(mock_log)[i].key]

\* the mock took create, read, create, read, with different arguments
C4_Witness ==
    /\ Len(mock_log) = 4
    /\ IsCreate(mock_log[1]) /\ IsRead(mock_log[2])
    /\ IsCreate(mock_log[3]) /\ IsRead(mock_log[4])
    /\ CallOf(mock_log[1]) # CallOf(mock_log[3])
    /\ mock_log[2].key # mock_log[4].key
    /\ create_call_count = 2 /\ read_call_count = 2

\* C5: on StubRepo, read(k) returns the constant "2" for every key k after
\* any sequence of earlier create and read calls; hence read_parse_sum_data
\* over a list of n keys returns 2 * n (6 for three keys).
C5_StubReadsConstant ==
    /\ \A i \in 1..Len(stub_log) :
          IsRead(stub_log[i]) => stub_log[i].out = Returned(<<"2">>)
    /\ actual.called => (actual.raised = "" /\ actual.ret = 2 * Len(actual.keys))

\* read_parse_sum_data over three keys returned 6, after a create that gave
\* one of those keys another value than "2"
C5_Witness ==
    /\ actual.called /\ Len(actual.keys) = 3 /\ actual.ret = 6
    /\ Len(stub_log) = 4
    /\ IsCreate(stub_log[1]) /\ stub_log[1].value # <<"2">>
    /\ \E i \in 1..3 : actual.keys[i] = stub_log[1].key
    /\ \A i \in 2..4 : IsRead(stub_log[i])

(***************************************************************************)
(* function_under_test(sequence_of_numbers): validation, then max.         *)
(***************************************************************************)
InputSequences == UNION {[1..n -> Objects] : n \in 0..MaxSeqLen}

\* lines 58-64: build the set of non-numbers and raise TypeError if it is
\* not empty
FutValidate(seq) ==
    /\ fut_pc = "idle"
    /\ sequence_of_numbers' = seq
    /\ max_calls' = max_calls
    /\ IF \E obj \in NonNumbers(seq) : ~IsHashable(obj)
       THEN /\ fut_pc' = "raised"
            /\ non_numbers_in_sequence' = {}
            /\ fut_out' = FutRaised("TypeError",
                              <<"unhashable type: ", "'" \o FirstUnhashable(seq).t \o "'">>)
       ELSE /\ non_numbers_in_sequence' = NonNumbers(seq)
            /\ IF NonNumbers(seq) # {}
               THEN /\ fut_pc' = "raised"
                    /\ \E order \in Orderings(NonNumbers(seq)) :
                          fut_out' = FutRaised("TypeError",
                                        <<NonNumberPrefix>> \o FormatSet(order))
               ELSE /\ fut_pc' = "validated"
                    /\ fut_out' = NoOutcome
    /\ UNCHANGED <<otherVars, repoVars, doubleVars, taskVars>>

\* line 65: return max(sequence_of_numbers); max of an empty sequence raises
\* ValueError
FutMax ==
    /\ fut_pc = "validated"
    /\ max_calls' = max_calls + 1
    /\ fut_out' = BuiltinMax(sequence_of_numbers)
    /\ fut_pc' = IF BuiltinMax(sequence_of_numbers).kind = "raise" THEN "raised"
                 ELSE "returned"
    /\ UNCHANGED <<otherVars, repoVars, doubleVars, taskVars, sequence_of_numbers,
                   non_numbers_in_sequence>>

FutNext ==
    \/ \E seq \in InputSequences : FutValidate(seq)
    \/ FutMax

SpecFut == Init /\ [][FutNext]_vars

(***************************************************************************)
(* Properties of function_under_test.                                      *)
(***************************************************************************)
AllInts(seq) == \A i \in 1..Len(seq) : IsInstanceInt(seq[i])
HasNonInt(seq) == \E i \in 1..Len(seq) : ~IsInstanceInt(seq[i])
Elements(seq) == {seq[i] : i \in 1..Len(seq)}

\* C7: for every non-empty sequence S whose elements are all integers,
\* function_under_test(S) raises nothing and returns the maximum of S: an
\* element of S that is greater than or equal to every element of S.
C7_ReturnsTrueMaximum ==
    (fut_pc # "idle" /\ sequence_of_numbers # <<>> /\ AllInts(sequence_of_numbers)) =>
        /\ fut_pc # "raised"
        /\ fut_pc = "returned" =>
              /\ fut_out.kind = "return"
              /\ fut_out.value \in Elements(sequence_of_numbers)
              /\ \A obj \in Elements(sequence_of_numbers) : obj.n <= fut_out.value.n

\* the call returned the middle element of three distinct ints, a negative
\* one among them
C7_Witness ==
    /\ fut_pc = "returned"
    /\ Len(sequence_of_numbers) = 3
    /\ fut_out.value = sequence_of_numbers[2]
    /\ sequence_of_numbers[1].n < 0
    /\ sequence_of_numbers[3].n < sequence_of_numbers[2].n
    /\ sequence_of_numbers[3].n # sequence_of_numbers[1].n

\* the reprs a message "...non-number: {a, b}" names between its braces
IsName(token) == token # ", "
Named(msg) == SelectSeq(SubSeq(msg, 3, Len(msg) - 1), IsName)
NamesExactly(msg, objs, seq) ==
    /\ Len(msg) >= 3 /\ msg[1] = NonNumberPrefix
    /\ {Named(msg)[i] : i \in 1..Len(Named(msg))} = {Repr(obj) : obj \in objs}
    /\ Len(Named(msg)) = Cardinality(objs)
    /\ \A i \in 1..Len(seq) : \A j \in 1..Len(Named(msg)) :
          IsInstanceInt(seq[i]) => Named(msg)[j] # Repr(seq[i])

\* C8: for every sequence S with at least one non-integer element,
\* function_under_test(S) raises TypeError before any maximum is computed,
\* and the message names exactly the non-integer elements of S: each of them
\* once, and no integer element.
C8_TypeErrorNamesOffenders ==
    (fut_pc # "idle" /\ HasNonInt(sequence_of_numbers)) =>
        /\ fut_pc = "raised"
        /\ fut_out.exc = "TypeError"
        /\ max_calls = 0
        /\ NamesExactly(fut_out.msg, NonNumbers(sequence_of_numbers), sequence_of_numbers)

\* what holds of the code: the same, for the sequences whose non-integer
\* elements are all hashable
C8_HashableOffendersNamed ==
    (fut_pc # "idle" /\ HasNonInt(sequence_of_numbers)
     /\ \A obj \in NonNumbers(sequence_of_numbers) : IsHashable(obj)) =>
        /\ fut_pc = "raised"
        /\ fut_out.exc = "TypeError"
        /\ max_calls = 0
        /\ NamesExactly(fut_out.msg, NonNumbers(sequence_of_numbers), sequence_of_numbers)

(***************************************************************************)
(* The update task: one action per statement of update_vscode.             *)
(***************************************************************************)
NextStep ==
    IF task_pc = "running" /\ Len(invoked) < Len(StepOrder)
    THEN StepOrder[Len(invoked) + 1] ELSE "none"

\* where the task stands after the command just invoked
AfterCommand(exc) ==
    IF exc # "" THEN "raised"
    ELSE IF Len(invoked) + 1 = Len(StepOrder) THEN "done" ELSE "running"

\* line 13: the task is invoked and reads the password
TaskReadSecrets(file) ==
    LET r == ReadPassword(file) IN
    /\ task_pc \in {"idle", "done", "raised"}
    /\ runs < MaxRuns
    /\ runs' = runs + 1
    /\ invoked' = <<>>
    /\ command_cwds' = <<>>
    /\ secrets_file' = file
    /\ password' = r.password
    /\ task_exc' = r.exc
    /\ task_pc' = IF r.exc = "" THEN "running" ELSE "raised"
    /\ UNCHANGED <<otherVars, repoVars, doubleVars, futVars, repo_dir_exists>>

\* lines 15-18: git clone, which fails when the directory is already there
TaskClone(outcome) ==
    /\ NextStep = "clone"
    /\ repo_dir_exists => outcome # "ok"
    /\ invoked' = Append(invoked,
          Invocation("clone", "run", CmdCloneRepo, command_cwds, NoPassword, outcome))
    /\ repo_dir_exists' = (repo_dir_exists \/ outcome = "ok")
    /\ task_exc' = RaisedBy(outcome)
    /\ task_pc' = AfterCommand(RaisedBy(outcome))
    /\ UNCHANGED <<otherVars, repoVars, doubleVars, futVars, secrets_file, password, command_cwds, runs>>

\* lines 19-21: enter the cloned directory and build; an exception leaves
\* the with block
TaskBuild(outcome) ==
    /\ NextStep = "build"
    /\ invoked' = Append(invoked,
          Invocation("build", "run", CmdBuild, Append(command_cwds, RepoPath),
                     NoPassword, outcome))
    /\ command_cwds' = IF RaisedBy(outcome) = "" THEN Append(command_cwds, RepoPath)
                       ELSE command_cwds
    /\ task_exc' = RaisedBy(outcome)
    /\ task_pc' = AfterCommand(RaisedBy(outcome))
    /\ UNCHANGED <<otherVars, repoVars, doubleVars, futVars, secrets_file, password, repo_dir_exists, runs>>

\* line 22: the privileged install, the last statement of the with block
TaskInstall(outcome) ==
    /\ NextStep = "install"
    /\ invoked' = Append(invoked,
          Invocation("install", "sudo", CmdInstall, command_cwds, password, outcome))
    /\ command_cwds' = IF command_cwds = <<>> THEN <<>>
                       ELSE SubSeq(command_cwds, 1, Len(command_cwds) - 1)
    /\ task_exc' = RaisedBy(outcome)
    /\ task_pc' = AfterCommand(RaisedBy(outcome))
    /\ UNCHANGED <<otherVars, repoVars, doubleVars, futVars, secrets_file, password, repo_dir_exists, runs>>

\* line 23: the privileged removal of the cloned directory
TaskRemove(outcome) ==
    /\ NextStep = "remove"
    /\ invoked' = Append(invoked,
          Invocation("remove", "sudo", CmdRemove, command_cwds, password, outcome))
    /\ repo_dir_exists' = (repo_dir_exists /\ outcome # "ok")
    /\ task_exc' = RaisedBy(outcome)
    /\ task_pc' = AfterCommand(RaisedBy(outcome))
    /\ UNCHANGED <<otherVars, repoVars, doubleVars, futVars, secrets_file, password, command_cwds, runs>>

TaskNext ==
    \/ \E file \in SecretsFiles : TaskReadSecrets(file)
    \/ \E outcome \in RunOutcomes : TaskClone(outcome)
    \/ \E outcome \in RunOutcomes : TaskBuild(outcome)
    \/ \E outcome \in SudoOutcomes : TaskInstall(outcome)
    \/ \E outcome \in SudoOutcomes : TaskRemove(outcome)

SpecTask == Init /\ [][TaskNext]_vars

(***************************************************************************)
(* Properties of the update task.                                          *)
(***************************************************************************)
Steps(log) == [i \in 1..Len(log) |-> log[i].step]
IsPrefix(a, b) == Len(a) <= Len(b) /\ \A i \in 1..Len(a) : a[i] = b[i]

\* C9: in every run of the update task the commands are invoked in the
\* order clone, build, privileged install, privileged remove; each starts
\* only after the one before it succeeded, none runs twice, and a run that
\* completes has executed all four.
C9_CommandsInStrictOrder ==
    /\ IsPrefix(Steps(invoked), <<"clone", "build", "install", "remove">>)
    /\ \A i \in 1..(Len(invoked) - 1) : invoked[i].outcome = "ok"
    /\ \A i \in 1..Len(invoked) :
          /\ invoked[i].step = "clone" =>
                (invoked[i].via = "run" /\ invoked[i].command = CmdCloneRepo
                 /\ invoked[i].cwds = <<>>)
          /\ invoked[i].step = "build" =>
                (invoked[i].via = "run" /\ invoked[i].command = CmdBuild
                 /\ invoked[i].cwds = <<RepoPath>>)
          /\ invoked[i].step = "install" =>
                (invoked[i].via = "sudo" /\ invoked[i].command = CmdInstall
                 /\ invoked[i].cwds = <<RepoPath>> /\ invoked[i].password = password)
          /\ invoked[i].step = "remove" =>
                (invoked[i].via = "sudo" /\ invoked[i].command = CmdRemove
                 /\ invoked[i].cwds = <<>> /\ invoked[i].password = password)
    /\ task_pc = "done" =>
          (Len(invoked) = 4 /\ \A i \in 1..4 : invoked[i].outcome = "ok")

\* a run completed with its four commands, after an earlier run
C9_Witness ==
    /\ task_pc = "done" /\ Len(invoked) = 4 /\ runs >= 2
    /\ password \in Passwords /\ ~repo_dir_exists

\* C10: a command of the update task that does not exit with status 0 is
\* the last one of its run: no later command is invoked, the process error
\* reaches the caller, no command is invoked again, and nothing is undone;
\* when the build or the install fails after a successful clone, the remove
\* does not run and the cloned directory is left behind.
C10_FailureAborts ==
    /\ \A i \in 1..Len(invoked) :
          invoked[i].outcome # "ok" =>
              /\ i = Len(invoked)
              /\ task_pc = "raised"
              /\ invoked[i].outcome = "nonzero_exit" => task_exc = "UnexpectedExit"
    /\ \A i, j \in 1..Len(invoked) : invoked[i].step = invoked[j].step => i = j
    /\ (/\ task_pc = "raised" /\ invoked # <<>>
        /\ invoked[Len(invoked)].step \in {"build", "install"}
        /\ invoked[1].step = "clone" /\ invoked[1].outcome = "ok")
          => (/\ \A i \in 1..Len(invoked) : invoked[i].step # "remove"
              /\ repo_dir_exists)

\* the install failed after a successful clone and build
C10_Witness ==
    /\ task_pc = "raised" /\ Len(invoked) = 3
    /\ invoked[3].step = "install" /\ invoked[3].outcome = "nonzero_exit"
    /\ invoked[1].outcome = "ok" /\ invoked[2].outcome = "ok"
    /\ task_exc = "UnexpectedExit" /\ repo_dir_exists

\* C11: the update task reads the password before it invokes any command:
\* when secrets.yaml is missing, malformed or has no password field, the
\* error reaches the caller and none of the four commands runs; a command is
\* invoked only once the password of the file has been read.
C11_SecretsReadBeforeCommands ==
    /\ [](/\ secrets_file.state \in {"missing", "malformed", "not_a_mapping", "no_password"} =>
              (task_pc = "raised" /\ invoked = <<>>)
          /\ secrets_file.state = "missing" => task_exc = "FileNotFoundError"
          /\ secrets_file.state = "malformed" => task_exc = "YAMLError"
          /\ secrets_file.state = "no_password" => task_exc = "KeyError"
          /\ invoked # <<>> =>
                (secrets_file.state = "ok" /\ password = secrets_file.password
                 /\ password \in Passwords))
    /\ [][(runs' # runs /\ secrets_file'.state # "ok")
            => (invoked' = <<>> /\ repo_dir_exists' = repo_dir_exists)]_vars

\* a run failed on a file without a password field, after an earlier run
\* that had invoked commands and left the cloned directory behind
C11_Witness ==
    /\ secrets_file.state = "no_password"
    /\ task_pc = "raised" /\ task_exc = "KeyError" /\ invoked = <<>>
    /\ runs >= 2 /\ repo_dir_exists

(***************************************************************************)
(* A test session: the runner sets the status to OK and calls the          *)
(* sessionstart hooks, collects, runs the tests, and only then computes    *)
(* the status of the session.                                              *)
(***************************************************************************)
SessionRest == <<repoVars, doubleVars, futVars, taskVars, compVars, fixtureVars>>

\* the runner starts the session and calls pytest_sessionstart(session)
SessionStart ==
    /\ session_pc = "created"
    /\ exitstatus' = pytest_sessionstart(ExitOK)
    /\ hook_calls' = hook_calls + 1
    /\ session_pc' = "started"
    /\ UNCHANGED <<SessionRest, testscollected, test_results>>

SessionCollect(n) ==
    /\ session_pc = "started"
    /\ testscollected' = n
    /\ session_pc' = "collected"
    /\ UNCHANGED <<SessionRest, exitstatus, test_results, hook_calls>>

SessionRunTest(result) ==
    /\ session_pc = "collected"
    /\ Len(test_results) < testscollected
    /\ test_results' = Append(test_results, result)
    /\ UNCHANGED <<SessionRest, session_pc, exitstatus, testscollected, hook_calls>>

\* every collected test has run: the runner computes the status and ends
SessionFinish ==
    /\ session_pc = "collected"
    /\ Len(test_results) = testscollected
    /\ exitstatus' = MainStatus(testscollected, test_results)
    /\ session_pc' = "finished"
    /\ UNCHANGED <<SessionRest, testscollected, test_results, hook_calls>>

\* the session is interrupted (status 2) while collecting or running
SessionInterrupt ==
    /\ session_pc \in {"started", "collected"}
    /\ exitstatus' = 2
    /\ session_pc' = "interrupted"
    /\ UNCHANGED <<SessionRest, testscollected, test_results, hook_calls>>

SessionNext ==
    \/ SessionStart
    \/ \E n \in 0..MaxTests : SessionCollect(n)
    \/ \E result \in {"passed", "failed"} : SessionRunTest(result)
    \/ SessionFinish
    \/ SessionInterrupt

SpecSession == Init /\ [][SessionNext]_vars

\* C12: the session hook rewrites the "no tests collected" status into
\* success: a session in which no test is collected finishes with exit
\* status 0.
C12_NoTestsSessionSucceeds ==
    (session_pc = "finished" /\ testscollected = 0) => exitstatus = ExitOK

(***************************************************************************)
(* The composition wrapper: construction, then calls of run.               *)
(***************************************************************************)
CompRest == <<repoVars, doubleVars, futVars, taskVars, sessionVars, fixtureVars>>

\* composite_object = CompositeClassUnderTest(obj)
CompConstruct(obj) ==
    /\ comp_pc = "none"
    /\ behavior_object' = obj
    /\ composite_behavior' = CompositeClassUnderTest_init(obj)
    /\ comp_pc' = "constructed"
    /\ UNCHANGED <<CompRest, transform_calls, run_log>>

\* composite_object.run(input_data)
CompRun(input_data) ==
    LET r == CompositeClassUnderTest_run(composite_behavior, input_data) IN
    /\ comp_pc = "constructed"
    /\ Len(run_log) < MaxRunCalls
    /\ transform_calls' = transform_calls \o r.calls
    /\ run_log' = Append(run_log, [arg |-> input_data, ret |-> r.ret])
    /\ UNCHANGED <<CompRest, comp_pc, behavior_object, composite_behavior>>

CompNext ==
    \/ \E obj \in Transformers : CompConstruct(obj)
    \/ \E input_data \in DataFrames : CompRun(input_data)

SpecComp == Init /\ [][CompNext]_vars

\* C13: every call run(d) on a CompositeClassUnderTest invokes transform on
\* the injected capability exactly once, with the argument d, and returns
\* the value transform returned; transform is never called otherwise and
\* the injected capability is never replaced.
C13_RunDelegatesUnchanged ==
    /\ Len(transform_calls) = Len(run_log)
    /\ \A i \in 1..Len(transform_calls) :
          /\ i <= Len(run_log)
          /\ transform_calls[i].on = behavior_object
          /\ transform_calls[i].arg = run_log[i].arg
          /\ run_log[i].ret = transform_calls[i].ret
    /\ comp_pc = "constructed" => composite_behavior = behavior_object

\* run was called twice on a wrapper around the FakeTransformer, with a
\* frame that transform shortens and then with another frame
C13_Witness ==
    /\ behavior_object = "FakeTransformer"
    /\ Len(run_log) = 2 /\ Len(transform_calls) = 2
    /\ run_log[1].ret # run_log[1].arg
    /\ run_log[2].arg # run_log[1].arg

(***************************************************************************)
(* A test that uses the cleanup fixture.                                   *)
(***************************************************************************)
FixtureRest == <<repoVars, doubleVars, futVars, taskVars, sessionVars, compVars>>

\* lines 817-833: the fixture sets up the collector and yields the factory
FixtureSetup ==
    /\ fix_pc = "none"
    /\ created_folders' = <<>>
    /\ fix_pc' = "yielded"
    /\ UNCHANGED <<FixtureRest, fs_folders, fs_files, made_folders, test_outcome,
                   teardown_exc, factory_calls>>

\* the test calls the factory; an exception of the factory fails the test
FixtureFactoryCall(file_names) ==
    LET r == wrapped_func(created_folders, fs_folders, fs_files, file_names) IN
    /\ fix_pc = "yielded"
    /\ factory_calls < MaxFactoryCalls
    /\ factory_calls' = factory_calls + 1
    /\ created_folders' = r.created
    /\ fs_folders' = r.folders
    /\ fs_files' = r.files
    /\ made_folders' = made_folders \cup r.made
    /\ test_outcome' = IF r.exc # "" THEN "failed" ELSE test_outcome
    /\ fix_pc' = IF r.exc # "" THEN "test_ended" ELSE fix_pc
    /\ UNCHANGED <<FixtureRest, teardown_exc>>

\* the test itself removes the folder it was given
FixtureTestRemovesFolder ==
    /\ fix_pc = "yielded"
    /\ SubFolder \in fs_folders
    /\ fs_folders' = Rmtree(SubFolder, fs_folders, fs_files).folders
    /\ fs_files' = Rmtree(SubFolder, fs_folders, fs_files).files
    /\ UNCHANGED <<FixtureRest, fix_pc, created_folders, made_folders, test_outcome,
                   teardown_exc, factory_calls>>

\* the test itself writes a file into the folder it was given
FixtureTestWritesFile(name) ==
    /\ fix_pc = "yielded"
    /\ SubFolder \in fs_folders
    /\ fs_files' = fs_files \cup {<<SubFolder, name>>}
    /\ UNCHANGED <<FixtureRest, fix_pc, created_folders, fs_folders, made_folders,
                   test_outcome, teardown_exc, factory_calls>>

\* the test passes or fails
FixtureTestEnds(outcome) ==
    /\ fix_pc = "yielded"
    /\ test_outcome' = outcome
    /\ fix_pc' = "test_ended"
    /\ UNCHANGED <<FixtureRest, created_folders, fs_folders, fs_files, made_folders,
                   teardown_exc, factory_calls>>

\* line 835: the code after the yield
FixtureTeardown ==
    LET r == Cleanup(created_folders, fs_folders, fs_files) IN
    /\ fix_pc = "test_ended"
    /\ fs_folders' = r.folders
    /\ fs_files' = r.files
    /\ teardown_exc' = r.exc
    /\ fix_pc' = "torn_down"
    /\ UNCHANGED <<FixtureRest, created_folders, made_folders, test_outcome, factory_calls>>

FixtureNext ==
    \/ FixtureSetup
    \/ \E file_names \in FileNameLists : FixtureFactoryCall(file_names)
    \/ FixtureTestRemovesFolder
    \/ \E name \in {"output_1.txt", "output_2.txt"} : FixtureTestWritesFile(name)
    \/ \E outcome \in {"passed", "failed"} : FixtureTestEnds(outcome)
    \/ FixtureTeardown

\* the test runner runs the code after the yield once the test has ended
SpecFixture == Init /\ [][FixtureNext]_vars /\ WF_vars(FixtureTeardown)

Recorded == {created_folders[i] : i \in 1..Len(created_folders)}

\* C14: the code after the yield of the cleanup fixture runs after the test
\* whether the test passed or failed, and once it has run every folder the
\* factory created during the test is gone: every created folder was
\* recorded in the collector and no recorded folder is left.
C14_CleanupAfterTest ==
    /\ [](made_folders \subseteq Recorded)
    /\ [](fix_pc = "torn_down" =>
            (\A folder \in made_folders \cup Recorded : folder \notin fs_folders))
    /\ (fix_pc = "test_ended" /\ test_outcome = "passed") ~> (fix_pc = "torn_down")
    /\ (fix_pc = "test_ended" /\ test_outcome = "failed") ~> (fix_pc = "torn_down")

\* the code after the yield removed a folder with files of a test that failed
C14_Witness ==
    /\ fix_pc = "torn_down" /\ test_outcome = "failed"
    /\ made_folders = {SubFolder} /\ created_folders = <<SubFolder>>
    /\ fs_folders = {} /\ fs_files = {} /\ teardown_exc = ""
    /\ factory_calls = 2

(***************************************************************************)
(* Frame properties of the production-like store and of the fake store.    *)
(***************************************************************************)
\* the index of the last create of `key` before call i of `log`
LastCreateBefore(log, i, key) ==
    CHOOSE j \in 1..(i - 1) :
        /\ IsCreate(log[j]) /\ log[j].key = key
        /\ \A m \in (j + 1)..(i - 1) : ~(IsCreate(log[m]) /\ log[m].key = key)

\* this step is a call `op` on the store of `log`
StepIs(op, log, logNext) ==
    Len(logNext) = Len(log) + 1 /\ LastCall(logNext).op = op

\* the entries of `store` other than that of `key` are those of `storeNext`
SameElsewhere(store, storeNext, key) ==
    /\ DOMAIN store \ {key} = DOMAIN storeNext \ {key}
    /\ \A k \in DOMAIN store \ {key} : storeNext[k] = store[k]

\* C15: on FakeRepo and on CloudRepository, after any sequence of creates,
\* read(k) returns the value of the most recent create(k, _); a create on a
\* key already present overwrites and never fails; and create(k, v) leaves
\* the value of every other key unchanged.
C15_LastCreateWinsOthersKept ==
    /\ [](\A log \in RepoLogs : \A i \in 1..Len(log) :
            /\ IsCreate(log[i]) => log[i].out = ReturnedNone
            /\ (IsRead(log[i]) /\ CreatedBefore(log, i, log[i].key)) =>
                  log[i].out = Returned(log[LastCreateBefore(log, i, log[i].key)].value))
    /\ [][ /\ StepIs("create", fake_log, fake_log') =>
               /\ SameElsewhere(fake_data, fake_data', LastCall(fake_log').key)
               /\ fake_data'[LastCall(fake_log').key] = LastCall(fake_log').value
           /\ StepIs("create", cloud_log, cloud_log') =>
               /\ SameElsewhere(cloud_data_store, cloud_data_store', LastCall(cloud_log').key)
               /\ cloud_data_store'[LastCall(cloud_log').key] = LastCall(cloud_log').value
         ]_vars

\* the fake store holds two keys, one of them overwritten with another
\* value and read back after a create of the other key
C15_Witness ==
    /\ Len(fake_log) = 4
    /\ IsCreate(fake_log[1]) /\ IsCreate(fake_log[2]) /\ IsCreate(fake_log[3])
    /\ fake_log[2].key = fake_log[1].key /\ fake_log[2].value # fake_log[1].value
    /\ fake_log[3].key # fake_log[1].key
    /\ IsRead(fake_log[4]) /\ fake_log[4].key = fake_log[1].key
    /\ fake_log[4].out = Returned(fake_log[2].value)
    /\ Cardinality(DOMAIN fake_data) = 2
    /\ Len(cloud_log) = 1 /\ IsCreate(cloud_log[1])

\* C18: on FakeRepo and on CloudRepository, read never changes the store:
\* after read(k), whether it returned or raised KeyError, the backing
\* mapping is what it was before; no record is ever removed, and once
\* create(k, _) has succeeded every later read(k) on the instance succeeds.
C18_ReadLeavesStoreUnchanged ==
    /\ [][ /\ StepIs("read", fake_log, fake_log') => fake_data' = fake_data
           /\ StepIs("read", cloud_log, cloud_log') => cloud_data_store' = cloud_data_store
           /\ DOMAIN fake_data \subseteq DOMAIN fake_data'
           /\ DOMAIN cloud_data_store \subseteq DOMAIN cloud_data_store'
         ]_vars
    /\ [](\A log \in RepoLogs : \A i \in 1..Len(log) :
            (IsRead(log[i]) /\ CreatedBefore(log, i, log[i].key)) =>
                (log[i].out.kind = "return" /\ log[i].out.exc = ""))

\* the fake store answered read(k) twice after one create(k, _), and before
\* that raised KeyError for another key, keeping its one record throughout
C18_Witness ==
    /\ Len(fake_log) = 4
    /\ IsCreate(fake_log[1])
    /\ IsRead(fake_log[2]) /\ fake_log[2].out = Raised("KeyError")
    /\ IsRead(fake_log[3]) /\ fake_log[3].key = fake_log[1].key
    /\ IsRead(fake_log[4]) /\ fake_log[4].key = fake_log[1].key
    /\ fake_log[3].out.kind = "return" /\ fake_log[4].out = fake_log[3].out
    /\ DOMAIN fake_data = {fake_log[1].key}
    /\ Len(cloud_log) = 1 /\ IsRead(cloud_log[1]) /\ cloud_data_store = EmptyDict

(***************************************************************************)
(* Property of load_many_values_sum_and_create_new_entry on the mock.      *)
(***************************************************************************)
\* str(2 * n), digit by digit
TwiceAsStr(n) ==
    IF 2 * n < 10 THEN <<Digits[2 * n + 1]>>
    ELSE <<Digits[((2 * n) \div 10) + 1], Digits[((2 * n) % 10) + 1]>>

\* C16: load_many_values_sum_and_create_new_entry(repo, keys) on the mock
\* makes one read per key, in the order of keys, and then one create, after
\* all the reads, with the arguments ("total", str(sum of the values read));
\* on a fresh mock and n keys this leaves read_call_count = n,
\* create_call_count = 1 and create_call_args = [("total", str(2 * n))].
C16_LoadManyReadsThenCreatesOnce ==
    load_call.called =>
        LET n == Len(load_call.keys)
            at == load_call.at
        IN /\ load_call.raised = ""
           /\ Len(mock_log) >= at + n + 1
           /\ \A i \in 1..n :
                 /\ IsRead(mock_log[at + i])
                 /\ mock_log[at + i].key = load_call.keys[i]
           /\ IsCreate(mock_log[at + n + 1])
           /\ mock_log[at + n + 1].key = TotalKey
           /\ mock_log[at + n + 1].value = TwiceAsStr(n)
           /\ (at = 0 /\ Len(mock_log) = n + 1) =>
                 /\ read_call_count = n
                 /\ read_call_args = load_call.keys
                 /\ create_call_count = 1
                 /\ create_call_args = << <<TotalKey, TwiceAsStr(n)>> >>

\* the function ran on a fresh mock over three keys, not all the same
C16_Witness ==
    /\ load_call.called /\ load_call.at = 0
    /\ Len(load_call.keys) = 3 /\ load_call.keys[1] # load_call.keys[3]
    /\ Len(mock_log) = 4
    /\ read_call_count = 3 /\ create_call_count = 1
    /\ create_call_args = << <<TotalKey, <<"6">> >> >>

\* C17: on the empty sequence function_under_test passes validation (no
\* TypeError, no offending element) and then fails with the ValueError of
\* max on an empty sequence instead of returning a value.
C17_EmptySequenceRaisesValueError ==
    (fut_pc # "idle" /\ sequence_of_numbers = <<>>) =>
        /\ non_numbers_in_sequence = {}
        /\ fut_pc \in {"validated", "raised"}
        /\ fut_pc = "validated" => (fut_out = NoOutcome /\ max_calls = 0)
        /\ fut_pc = "raised" =>
              (fut_out.kind = "raise" /\ fut_out.exc = "ValueError" /\ max_calls = 1)

\* the call on the empty sequence ended with the ValueError of max
C17_Witness ==
    /\ sequence_of_numbers = <<>> /\ fut_pc = "raised"
    /\ fut_out.exc = "ValueError" /\ max_calls = 1

====
